---- MODULE Spec2Model ----
(***************************************************************************)
(* Legal-Lens: the POST /simplify_document pipeline of src/main.py.        *)
(*                                                                         *)
(* Text is modelled as TLA+ strings, character by character.  SANY's lexer *)
(* does not accept the grave accent U+0060 inside a string literal, so the *)
(* backtick of the markdown fence is written as the apostrophe ' in every  *)
(* literal of this module: "'''json" stands for the marker of main.py:88.  *)
(* No modelled text contains a real apostrophe.                            *)
(***************************************************************************)
EXTENDS Integers, Sequences, FiniteSets, TLC

VARIABLES
    pc,                   \* position of each request in simplify_document
    filename,             \* uploaded_file.filename of each request
    upload,               \* text a PDF decoder finds in the request's upload
    fs,                   \* working directory: path -> linked file (0 = none)
    inode,                \* contents of the file each request's open() created
    fd,                   \* file each request holds open / wrote to (0 = none)
    doc_text,             \* local doc_text
    summary,              \* local summary
    clauses_json_string,  \* local clauses_json_string
    result,               \* what the try/except/finally has decided so far
    response,             \* what the caller receives
    llm,                  \* history: outcome of the two external calls
    decided,              \* history: result when the finally block was entered
    log,                  \* history: steps the request has performed, in order
    readFrom,             \* history: whose bytes read_pdf_file opened
    touched,              \* history: requests whose file this one used
    response_text,        \* raw response.text handed to the fence stripping
    clean_text,           \* clean_text computed from response_text
    env                   \* uploads and service answers that occur in this run

vars == <<pc, filename, upload, fs, inode, fd, doc_text, summary,
          clauses_json_string, result, response, llm, decided, log, readFrom,
          touched, response_text, clean_text, env>>

(***************************************************************************)
(* Bounds                                                                  *)
(***************************************************************************)
NumRequests == 2
MaxPieces == 3

Requests == 1 .. NumRequests

(***************************************************************************)
(* Python str methods used by extract_clauses                              *)
(***************************************************************************)
PyWhitespace == {" ", "\n", "\t", "\r", "\f"}

\* s[i:i+1], the empty string past the end
ch(s, i) == IF 1 <= i /\ i <= Len(s) THEN SubSeq(s, i, i) ELSE ""

\* s.startswith(lit, i - 1)
starts_with(s, i, lit) ==
    i + Len(lit) - 1 <= Len(s) /\ SubSeq(s, i, i + Len(lit) - 1) = lit

RECURSIVE lstrip(_)
lstrip(s) ==
    IF Len(s) > 0 /\ ch(s, 1) \in PyWhitespace
    THEN lstrip(SubSeq(s, 2, Len(s)))
    ELSE s

RECURSIVE rstrip(_)
rstrip(s) ==
    IF Len(s) > 0 /\ ch(s, Len(s)) \in PyWhitespace
    THEN rstrip(SubSeq(s, 1, Len(s) - 1))
    ELSE s

str_strip(s) == rstrip(lstrip(s))

Min(S) == CHOOSE x \in S : \A y \in S : x <= y

\* s.find(sub, i - 1) + 1: the first position >= i where sub occurs, 0 if none
find(s, sub, i) ==
    LET hits == {j \in i .. (Len(s) - Len(sub) + 1) : starts_with(s, j, sub)}
    IN  IF hits = {} THEN 0 ELSE Min(hits)

\* str.replace(old, new): leftmost, non-overlapping occurrences (old # "")
RECURSIVE str_replace(_, _, _)
str_replace(s, old, new) ==
    LET j == find(s, old, 1)
    IN  IF j = 0 THEN s
        ELSE SubSeq(s, 1, j - 1) \o new
             \o str_replace(SubSeq(s, j + Len(old), Len(s)), old, new)

(***************************************************************************)
(* json.loads / json.dumps (main.py:95, main.py:150) on the JSON subset    *)
(* the modelled texts use: objects, arrays, strings with the simple        *)
(* backslash escapes, integers, true, false, null, JSON whitespace.        *)
(***************************************************************************)
JNull == [t |-> "null"]
JBool(b) == [t |-> "bool", b |-> b]
JNum(n) == [t |-> "num", n |-> n]
JStr(s) == [t |-> "str", s |-> s]
JArr(items) == [t |-> "arr", items |-> items]
\* a dict: keys in insertion order, m the mapping
JObj(keys, m) == [t |-> "obj", keys |-> keys, m |-> m]

KeySet(keys) == {keys[j] : j \in 1 .. Len(keys)}

JsonWhitespace == {" ", "\t", "\n", "\r"}
ControlChars == {"\n", "\t", "\r", "\f"}
Digits == {"0", "1", "2", "3", "4", "5", "6", "7", "8", "9"}
DigitVal == ("0" :> 0) @@ ("1" :> 1) @@ ("2" :> 2) @@ ("3" :> 3) @@ ("4" :> 4)
            @@ ("5" :> 5) @@ ("6" :> 6) @@ ("7" :> 7) @@ ("8" :> 8) @@ ("9" :> 9)
Unescape == ("\"" :> "\"") @@ ("\\" :> "\\") @@ ("/" :> "/") @@ ("n" :> "\n")
            @@ ("t" :> "\t") @@ ("r" :> "\r") @@ ("f" :> "\f")

Fail(i) == [ok |-> FALSE, val |-> JNull, pos |-> i]
Ok(v, i) == [ok |-> TRUE, val |-> v, pos |-> i]

RECURSIVE skip_ws(_, _)
skip_ws(s, i) ==
    IF i <= Len(s) /\ ch(s, i) \in JsonWhitespace THEN skip_ws(s, i + 1) ELSE i

\* first position >= i holding a character of set C, Len(s) + 1 if none
next_in(s, i, C) ==
    Min({j \in i .. Len(s) : ch(s, j) \in C} \cup {Len(s) + 1})

\* scanstring: i is the position after the opening quote
RECURSIVE scan_string(_, _, _)
scan_string(s, i, acc) ==
    LET j == next_in(s, i, {"\"", "\\"} \cup ControlChars)
        got == acc \o SubSeq(s, i, j - 1)
    IN  IF j > Len(s) THEN Fail(j)
        ELSE IF ch(s, j) = "\"" THEN Ok(JStr(got), j + 1)
        ELSE IF ch(s, j) = "\\" /\ ch(s, j + 1) \in DOMAIN Unescape \ {""}
             THEN scan_string(s, j + 2, got \o Unescape[ch(s, j + 1)])
        ELSE Fail(j)

RECURSIVE scan_digits(_, _, _)
scan_digits(s, i, n) ==
    IF i <= Len(s) /\ ch(s, i) \in Digits
    THEN scan_digits(s, i + 1, 10 * n + DigitVal[ch(s, i)])
    ELSE Ok(JNum(n), i)

\* NUMBER_RE, integer part: -?(0|[1-9][0-9]*)
scan_number(s, i) ==
    LET neg == ch(s, i) = "-"
        j == IF neg THEN i + 1 ELSE i
        d == IF ch(s, j) = "0" THEN Ok(JNum(0), j + 1) ELSE scan_digits(s, j, 0)
    IN  IF j > Len(s) \/ ch(s, j) \notin Digits THEN Fail(i)
        ELSE IF neg THEN Ok(JNum(0 - d.val.n), d.pos) ELSE d

RECURSIVE parse_value(_, _)
RECURSIVE parse_members(_, _, _, _)
RECURSIVE parse_items(_, _, _)

\* scan_once
parse_value(s, i) ==
    IF i > Len(s) THEN Fail(i)
    ELSE IF ch(s, i) = "\"" THEN scan_string(s, i + 1, "")
    ELSE IF ch(s, i) = "{"
         THEN LET j == skip_ws(s, i + 1)
              IN  IF ch(s, j) = "}" THEN Ok(JObj(<<>>, <<>>), j + 1)
                  ELSE parse_members(s, j, <<>>, <<>>)
    ELSE IF ch(s, i) = "["
         THEN LET j == skip_ws(s, i + 1)
              IN  IF ch(s, j) = "]" THEN Ok(JArr(<<>>), j + 1)
                  ELSE parse_items(s, j, <<>>)
    ELSE IF starts_with(s, i, "null") THEN Ok(JNull, i + 4)
    ELSE IF starts_with(s, i, "true") THEN Ok(JBool(TRUE), i + 4)
    ELSE IF starts_with(s, i, "false") THEN Ok(JBool(FALSE), i + 5)
    ELSE scan_number(s, i)

\* JSONObject: i is where the quote of the next key is expected
parse_members(s, i, keys, m) ==
    IF ch(s, i) # "\"" THEN Fail(i)
    ELSE LET k == scan_string(s, i + 1, "")
         IN  IF ~k.ok THEN Fail(k.pos)
             ELSE LET c == skip_ws(s, k.pos)
                  IN  IF ch(s, c) # ":" THEN Fail(c)
                      ELSE LET v == parse_value(s, skip_ws(s, c + 1))
                           IN  IF ~v.ok THEN Fail(v.pos)
                               ELSE LET e == skip_ws(s, v.pos)
                                        key == k.val.s
                                        keys2 == IF key \in KeySet(keys) THEN keys
                                                 ELSE Append(keys, key)
                                        m2 == (key :> v.val) @@ m
                                    IN  IF ch(s, e) = "}"
                                        THEN Ok(JObj(keys2, m2), e + 1)
                                        ELSE IF ch(s, e) = ","
                                        THEN parse_members(s, skip_ws(s, e + 1),
                                                           keys2, m2)
                                        ELSE Fail(e)

\* JSONArray: i is where the next element starts
parse_items(s, i, items) ==
    LET v == parse_value(s, i)
    IN  IF ~v.ok THEN Fail(v.pos)
        ELSE LET e == skip_ws(s, v.pos)
                 items2 == Append(items, v.val)
             IN  IF ch(s, e) = "]" THEN Ok(JArr(items2), e + 1)
                 ELSE IF ch(s, e) = "," THEN parse_items(s, skip_ws(s, e + 1), items2)
                 ELSE Fail(e)

\* json.loads: ok = FALSE stands for json.JSONDecodeError
json_loads(s) ==
    LET v == parse_value(s, skip_ws(s, 1))
    IN  IF v.ok /\ skip_ws(s, v.pos) = Len(s) + 1
        THEN [ok |-> TRUE, val |-> v.val]
        ELSE [ok |-> FALSE, val |-> JNull]

Escape == ("\"" :> "\\\"") @@ ("\\" :> "\\\\") @@ ("\n" :> "\\n")
          @@ ("\t" :> "\\t") @@ ("\r" :> "\\r") @@ ("\f" :> "\\f")

RECURSIVE py_escape(_)
py_escape(s) ==
    LET j == next_in(s, 1, DOMAIN Escape)
    IN  IF j > Len(s) THEN s
        ELSE SubSeq(s, 1, j - 1) \o Escape[ch(s, j)]
             \o py_escape(SubSeq(s, j + 1, Len(s)))

RECURSIVE json_dumps(_)
RECURSIVE dumps_items(_, _)
RECURSIVE dumps_members(_, _, _)

\* json.dumps with the default separators ", " and ": "
json_dumps(v) ==
    IF v.t = "str" THEN "\"" \o py_escape(v.s) \o "\""
    ELSE IF v.t = "arr" THEN "[" \o dumps_items(v.items, 1) \o "]"
    ELSE IF v.t = "obj" THEN "{" \o dumps_members(v.keys, v.m, 1) \o "}"
    ELSE IF v.t = "num" THEN ToString(v.n)
    ELSE IF v.t = "bool" THEN (IF v.b THEN "true" ELSE "false")
    ELSE "null"

dumps_items(items, j) ==
    IF j > Len(items) THEN ""
    ELSE (IF j > 1 THEN ", " ELSE "") \o json_dumps(items[j])
         \o dumps_items(items, j + 1)

dumps_members(keys, m, j) ==
    IF j > Len(keys) THEN ""
    ELSE (IF j > 1 THEN ", " ELSE "") \o "\"" \o py_escape(keys[j]) \o "\": "
         \o json_dumps(m[keys[j]]) \o dumps_members(keys, m, j + 1)

(***************************************************************************)
(* Program constants of src/main.py                                        *)
(***************************************************************************)
SUMMARY_ERROR == "Could not generate summary due to an API error."
CLAUSE_ERROR == "An error occurred while trying to extract clauses from the document."
DETAIL_UNREADABLE == "Could not read text from the uploaded document."
DETAIL_MALFORMED == "The AI failed to structure the clauses correctly. Please try again."
DETAIL_INTERNAL == "An internal server error occurred during analysis."
ClauseKeys == {"liability", "termination", "confidentiality"}

\* variant: the fallback without the notice, every list empty
ErrorClauses_empty ==
    JObj(<<"liability", "termination", "confidentiality">>,
         [liability |-> JArr(<<>>),
          termination |-> JArr(<<>>),
          confidentiality |-> JArr(<<>>)])

\* the dict literal handed to json.dumps when the clause call fails
ErrorClauses ==
    JObj(<<"liability", "termination", "confidentiality">>,
         [liability |-> JArr(<<JStr(CLAUSE_ERROR)>>),
          termination |-> JArr(<<>>),
          confidentiality |-> JArr(<<>>)])

(***************************************************************************)
(* Inputs: uploads and the behaviour of the external collaborators         *)
(***************************************************************************)
Filenames == {"a.pdf", "b.pdf"}
\* text the PDF decoder extracts from an upload; "" for a non-PDF or a scan
UploadTexts == {"", "Tenant shall pay rent."}

SummaryResponses == {"This contract obligates..."}

R_NOT_JSON == "not json at all"
R_OK == "{\"liability\":[\"X shall indemnify Y\"],\"termination\":[],\"confidentiality\":[]}"
R_FENCED_OK == "'''json\n" \o R_OK \o "\n'''"
R_FENCED_MISSING == "'''json\n{\"liability\":[]}\n'''"
R_EXTRA == "{\"liability\":[],\"termination\":[],\"confidentiality\":[],\"indemnity\":[\"Z\"]}"
R_WRONG_TYPE == "{\"liability\":\"X shall indemnify Y\",\"termination\":[],\"confidentiality\":[]}"
ClauseResponses == {R_NOT_JSON, R_FENCED_OK, R_FENCED_MISSING, R_EXTRA, R_WRONG_TYPE}

\* llm.generate_content(prompt).text either raises or yields a text
ApiFailure == [ok |-> FALSE, text |-> ""]
LlmOutcomes(texts) == {ApiFailure} \cup {[ok |-> TRUE, text |-> t] : t \in texts}

(***************************************************************************)
(* The three agents                                                        *)
(***************************************************************************)
NoFile == [writer |-> 0, bytes |-> "none", text |-> ""]

\* the values read_pdf_file can return for the file linked at the path
\* (linked = FALSE when nothing is there: fitz.open raises, "" is returned)
read_pdf_file(linked, file) ==
    IF ~linked \/ file.bytes = "none" THEN {""}
    ELSE IF file.bytes = "full" THEN {file.text}
    ELSE {"", file.text}

get_summary(resp) == IF resp.ok THEN resp.text ELSE SUMMARY_ERROR

\* variant: the response text is passed on as it came
extract_clauses_unstripped(resp) ==
    IF resp.ok THEN resp.text ELSE json_dumps(ErrorClauses)

extract_clauses(resp) ==
    IF resp.ok
    THEN str_replace(str_replace(str_strip(resp.text), "'''json", ""), "'''", "")
    ELSE json_dumps(ErrorClauses)

(***************************************************************************)
(* simplify_document                                                       *)
(***************************************************************************)
\* variant: one temporary path whatever the filename
file_path_shared(fn) == "temp_upload"

file_path(fn) == "temp_" \o fn
Paths == {file_path(fn) : fn \in Filenames}

Pending == [kind |-> "pending", status |-> 0, detail |-> "", summary |-> "",
            clauses |-> JNull, exc |-> ""]
HTTPException(status, detail) ==
    [kind |-> "http", status |-> status, detail |-> detail, summary |-> "",
     clauses |-> JNull, exc |-> "HTTPException"]
Returned(s, c) ==
    [kind |-> "return", status |-> 200, detail |-> "", summary |-> s,
     clauses |-> c, exc |-> ""]
\* an exception that leaves the endpoint: the server answers with a bare 500
Unhandled(name) ==
    [kind |-> "unhandled", status |-> 500, detail |-> "", summary |-> "",
     clauses |-> JNull, exc |-> name]

\* variant: the generic handler catches the HTTPException as well
except_clauses_generic(exc) == HTTPException(500, DETAIL_INTERNAL)

\* the except clauses: HTTPException is re-raised, anything else becomes 500
except_clauses(exc) ==
    IF exc.kind = "http" THEN exc ELSE HTTPException(500, DETAIL_INTERNAL)

\* ResultStructure: summary: str, clauses: Dict[str, List[str]]
is_list_of_str(v) ==
    v.t = "arr" /\ \A j \in 1 .. Len(v.items) : v.items[j].t = "str"
fits_ResultStructure(res) ==
    /\ res.clauses.t = "obj"
    /\ \A k \in KeySet(res.clauses.keys) : is_list_of_str(res.clauses.m[k])

\* what the framework sends for the outcome of the endpoint function
respond(res) ==
    IF res.kind = "return" /\ ~fits_ResultStructure(res)
    THEN Unhandled("ResponseValidationError")
    ELSE res

\* variant: a JSONDecodeError is swallowed and empty clauses are returned
parse_outcome_lenient(s, text) ==
    LET parsed == json_loads(text)
    IN  IF parsed.ok THEN Returned(s, parsed.val)
        ELSE Returned(s, JObj(<<>>, <<>>))

\* lines 149-155: the parsed clauses are returned, a JSONDecodeError is the 500
parse_outcome(s, text) ==
    LET parsed == json_loads(text)
    IN  IF parsed.ok THEN Returned(s, parsed.val)
        ELSE HTTPException(500, DETAIL_MALFORMED)

\* variant: the two external calls in the other order
follows_swapped(step) ==
    CASE step = "open" -> "copy"
      [] step = "copy" -> "read"
      [] step = "read" -> "clauses"
      [] step = "clauses" -> "summary"
      [] step = "summary" -> "parse"
      [] step = "parse" -> "exists"

\* lines 133-155: the statement that follows each statement of the try block
follows(step) ==
    CASE step = "open" -> "copy"
      [] step = "copy" -> "read"
      [] step = "read" -> "summary"
      [] step = "summary" -> "clauses"
      [] step = "clauses" -> "parse"
      [] step = "parse" -> "exists"

\* variant: the file is left where it is
os_remove_keeps(files, p) == files

\* line 167: os.remove unlinks the path
os_remove(files, p) == [files EXCEPT ![p] = 0]

\* the owners of the file linked as i: who created it, whose bytes it holds
Owners(i, file) == IF i = 0 THEN {} ELSE {i, file.writer}

NoCalls == [summary |-> "none", clauses |-> "none"]

AnyEnv == [uploads |-> UploadTexts,
           disk |-> {"ok", "error"},
           summary |-> LlmOutcomes(SummaryResponses),
           clauses |-> LlmOutcomes(ClauseResponses)]
GoodEnv == [uploads |-> UploadTexts \ {""},
            disk |-> {"ok"},
            summary |-> {[ok |-> TRUE, text |-> t] : t \in SummaryResponses},
            clauses |-> {[ok |-> TRUE, text |-> R_FENCED_OK]}]

Init ==
    /\ pc = [r \in Requests |-> "idle"]
    /\ filename = [r \in Requests |-> ""]
    /\ upload = [r \in Requests |-> ""]
    /\ fs = [p \in Paths |-> 0]
    /\ inode = [r \in Requests |-> NoFile]
    /\ fd = [r \in Requests |-> 0]
    /\ doc_text = [r \in Requests |-> ""]
    /\ summary = [r \in Requests |-> ""]
    /\ clauses_json_string = [r \in Requests |-> ""]
    /\ result = [r \in Requests |-> Pending]
    /\ decided = [r \in Requests |-> Pending]
    /\ response = [r \in Requests |-> Pending]
    /\ llm = [r \in Requests |-> NoCalls]
    /\ log = [r \in Requests |-> <<>>]
    /\ readFrom = [r \in Requests |-> -1]
    /\ touched = [r \in Requests |-> {}]
    /\ response_text = ""
    /\ clean_text = [done |-> FALSE, text |-> ""]
    /\ env = AnyEnv

\* the same start, with readable uploads, a disk that takes every write and
\* a service that answers both calls as instructed
InitConc ==
    /\ Init!1 /\ Init!2 /\ Init!3 /\ Init!4 /\ Init!5 /\ Init!6 /\ Init!7
    /\ Init!8 /\ Init!9 /\ Init!10 /\ Init!11 /\ Init!12 /\ Init!13 /\ Init!14
    /\ Init!15 /\ Init!16 /\ Init!17 /\ Init!18
    /\ env = GoodEnv

fence == <<response_text, clean_text, env>>

\* an exception reaches the except clauses and the finally block starts
Raise(r, exc) ==
    /\ result' = [result EXCEPT ![r] = except_clauses(exc)]
    /\ decided' = [decided EXCEPT ![r] = except_clauses(exc)]
    /\ pc' = [pc EXCEPT ![r] = "exists"]

Step(r, name) == log' = [log EXCEPT ![r] = Append(@, name)]

\* line 129: a request arrives and the path is derived from the filename
Receive(r) ==
    /\ pc[r] = "idle"
    /\ \E fn \in Filenames, text \in env.uploads :
          /\ filename' = [filename EXCEPT ![r] = fn]
          /\ upload' = [upload EXCEPT ![r] = text]
    /\ pc' = [pc EXCEPT ![r] = "open"]
    /\ UNCHANGED <<fs, inode, fd, doc_text, summary, clauses_json_string, result,
                   decided, response, llm, log, readFrom, touched, fence>>

\* the endpoint is a coroutine without await: on one event loop no other
\* request enters the function body while a request is inside it
ReceiveSerial(r) ==
    /\ \A q \in Requests : pc[q] = "idle"
    /\ Receive(r)

\* with workers side by side: requests are numbered in the order they arrive
ReceiveInOrder(r) ==
    /\ \A q \in Requests : q < r => pc[q] # "idle"
    /\ Receive(r)

\* line 133: open(file_path, "wb") creates the file or truncates the one there
OpenTemp(r) ==
    /\ pc[r] = "open"
    /\ Step(r, "open")
    /\ \/ /\ "error" \in env.disk
          /\ Raise(r, Unhandled("OSError"))
          /\ UNCHANGED <<fs, inode, fd, touched>>
       \/ LET p == file_path(filename[r])
              i == IF fs[p] = 0 THEN r ELSE fs[p]
          IN  /\ fs' = [fs EXCEPT ![p] = i]
              /\ inode' = [inode EXCEPT ![i] = [writer |-> r, bytes |-> "none",
                                                text |-> ""]]
              /\ fd' = [fd EXCEPT ![r] = i]
              /\ touched' = [touched EXCEPT ![r] = @ \cup Owners(fs[p], inode[i])]
              /\ pc' = [pc EXCEPT ![r] = follows("open")]
              /\ UNCHANGED <<result, decided>>
    /\ UNCHANGED <<filename, upload, doc_text, summary, clauses_json_string,
                   response, llm, readFrom, fence>>

\* line 134: shutil.copyfileobj writes the upload through the open handle,
\* which the with statement then closes
CopyUpload(r) ==
    /\ pc[r] = "copy"
    /\ Step(r, "copy")
    /\ LET i == fd[r]
           alone == inode[i].writer = r
       IN  \/ /\ \E b \in (IF alone THEN {"full"} ELSE {"full", "partial"}) :
                    inode' = [inode EXCEPT ![i] = [writer |-> r, bytes |-> b,
                                                   text |-> upload[r]]]
              /\ pc' = [pc EXCEPT ![r] = follows("copy")]
              /\ UNCHANGED <<result, decided>>
           \/ /\ "error" \in env.disk
              /\ inode' = [inode EXCEPT ![i] = [writer |-> r, bytes |-> "partial",
                                                text |-> upload[r]]]
              /\ Raise(r, Unhandled("OSError"))
    /\ fd' = [fd EXCEPT ![r] = 0]
    /\ UNCHANGED <<filename, upload, fs, doc_text, summary,
                   clauses_json_string, response, llm, readFrom, touched, fence>>

\* lines 137-142: read the text back; an empty text is the 400
ReadPdf(r) ==
    /\ pc[r] = "read"
    /\ Step(r, "read")
    /\ LET i == fs[file_path(filename[r])]
           file == IF i = 0 THEN NoFile ELSE inode[i]
       IN  /\ readFrom' = [readFrom EXCEPT ![r] = file.writer]
           /\ touched' = [touched EXCEPT ![r] = @ \cup Owners(i, file)]
           /\ \E t \in read_pdf_file(i # 0, file) :
                 /\ doc_text' = [doc_text EXCEPT ![r] = t]
                 /\ IF t = ""
                    THEN Raise(r, HTTPException(400, DETAIL_UNREADABLE))
                    ELSE /\ pc' = [pc EXCEPT ![r] = follows("read")]
                         /\ UNCHANGED <<result, decided>>
    /\ UNCHANGED <<filename, upload, fs, inode, fd, summary, clauses_json_string,
                   response, llm, fence>>

\* line 145: summary = get_summary(doc_text), one external call
GetSummary(r) ==
    /\ pc[r] = "summary"
    /\ Step(r, "summary")
    /\ \E resp \in env.summary :
          /\ summary' = [summary EXCEPT ![r] = get_summary(resp)]
          /\ llm' = [llm EXCEPT ![r].summary = IF resp.ok THEN "ok" ELSE "failed"]
    /\ pc' = [pc EXCEPT ![r] = follows("summary")]
    /\ UNCHANGED <<filename, upload, fs, inode, fd, doc_text, clauses_json_string,
                   result, decided, response, readFrom, touched, fence>>

\* line 146: clauses_json_string = extract_clauses(doc_text), one external call
ExtractClauses(r) ==
    /\ pc[r] = "clauses"
    /\ Step(r, "clauses")
    /\ \E resp \in env.clauses :
          /\ clauses_json_string' =
                [clauses_json_string EXCEPT ![r] = extract_clauses(resp)]
          /\ llm' = [llm EXCEPT ![r].clauses = IF resp.ok THEN "ok" ELSE "failed"]
    /\ pc' = [pc EXCEPT ![r] = follows("clauses")]
    /\ UNCHANGED <<filename, upload, fs, inode, fd, doc_text, summary, result,
                   decided, response, readFrom, touched, fence>>

\* lines 149-155: json.loads, then either the 500 or the return value
ParseClauses(r) ==
    /\ pc[r] = "parse"
    /\ Step(r, "parse")
    /\ LET out == parse_outcome(summary[r], clauses_json_string[r])
       IN  IF out.kind = "http"
           THEN Raise(r, out)
           ELSE /\ result' = [result EXCEPT ![r] = out]
                /\ decided' = [decided EXCEPT ![r] = out]
                /\ pc' = [pc EXCEPT ![r] = follows("parse")]
    /\ UNCHANGED <<filename, upload, fs, inode, fd, doc_text, summary,
                   clauses_json_string, response, llm, readFrom, touched, fence>>

\* line 166: if os.path.exists(file_path)
CleanupExists(r) ==
    /\ pc[r] = "exists"
    /\ Step(r, "exists")
    /\ pc' = [pc EXCEPT ![r] = IF fs[file_path(filename[r])] # 0
                               THEN "remove" ELSE "respond"]
    /\ UNCHANGED <<filename, upload, fs, inode, fd, doc_text, summary,
                   clauses_json_string, result, decided, response, llm, readFrom,
                   touched, fence>>

\* line 167: os.remove(file_path); FileNotFoundError replaces the outcome
CleanupRemove(r) ==
    /\ pc[r] = "remove"
    /\ Step(r, "remove")
    /\ LET p == file_path(filename[r])
       IN  IF fs[p] # 0
           THEN /\ fs' = os_remove(fs, p)
                /\ touched' = [touched EXCEPT ![r] = @ \cup Owners(fs[p], inode[fs[p]])]
                /\ UNCHANGED result
           ELSE /\ result' = [result EXCEPT ![r] = Unhandled("FileNotFoundError")]
                /\ UNCHANGED <<fs, touched>>
    /\ pc' = [pc EXCEPT ![r] = "respond"]
    /\ UNCHANGED <<filename, upload, inode, fd, doc_text, summary,
                   clauses_json_string, decided, response, llm, readFrom, fence>>

\* line 123: the framework validates a returned value against ResultStructure
\* and answers
Respond(r) ==
    /\ pc[r] = "respond"
    /\ response' = [response EXCEPT ![r] = respond(result[r])]
    /\ pc' = [pc EXCEPT ![r] = "done"]
    /\ UNCHANGED <<filename, upload, fs, inode, fd, doc_text, summary,
                   clauses_json_string, result, decided, llm, log, readFrom,
                   touched, fence>>

Handler(r) ==
    \/ OpenTemp(r)
    \/ CopyUpload(r)
    \/ ReadPdf(r)
    \/ GetSummary(r)
    \/ ExtractClauses(r)
    \/ ParseClauses(r)
    \/ CleanupExists(r)
    \/ CleanupRemove(r)
    \/ Respond(r)

\* the answered request leaves the server; nothing of it remains but the
\* working directory
Retire(r) ==
    /\ pc[r] = "done"
    /\ pc' = [pc EXCEPT ![r] = "idle"]
    /\ filename' = [filename EXCEPT ![r] = ""]
    /\ upload' = [upload EXCEPT ![r] = ""]
    /\ inode' = [inode EXCEPT ![r] = NoFile]
    /\ fd' = [fd EXCEPT ![r] = 0]
    /\ result' = [result EXCEPT ![r] = Pending]
    /\ decided' = [decided EXCEPT ![r] = Pending]
    /\ response' = [response EXCEPT ![r] = Pending]
    /\ llm' = [llm EXCEPT ![r] = NoCalls]
    /\ log' = [log EXCEPT ![r] = <<>>]
    /\ readFrom' = [readFrom EXCEPT ![r] = -1]
    /\ touched' = [touched EXCEPT ![r] = {}]
    /\ doc_text' = [doc_text EXCEPT ![r] = ""]
    /\ summary' = [summary EXCEPT ![r] = ""]
    /\ clauses_json_string' = [clauses_json_string EXCEPT ![r] = ""]
    /\ UNCHANGED <<fs, fence>>

\* one server process: the bodies of the endpoint run one after the other
Next == \E r \in Requests : ReceiveSerial(r) \/ Handler(r) \/ Retire(r)
Spec == Init /\ [][Next]_vars

\* several worker processes in one working directory: the steps interleave.
\* A step that touches nothing but the locals of its request commutes with
\* every step of the other requests, so it is taken before they move on.
LocalStep(q) == pc[q] \in {"summary", "clauses", "parse", "respond"}
Turn(r) == \A q \in Requests \ {r} : ~LocalStep(q)
NextConc == \E r \in Requests : Turn(r) /\ (ReceiveInOrder(r) \/ Handler(r))
SpecConc == InitConc /\ [][NextConc]_vars

(***************************************************************************)
(* The fence stripping of extract_clauses on its own, over raw responses    *)
(* assembled from up to MaxPieces pieces                                   *)
(***************************************************************************)
Pieces == {"'", "''", "'''json", "json", "{}", " ", "\n", "x"}

RECURSIVE concat(_)
concat(ps) == IF Len(ps) = 0 THEN "" ELSE Head(ps) \o concat(Tail(ps))

RawResponses == {concat(ps) : ps \in UNION {[1 .. k -> Pieces] : k \in 0 .. MaxPieces}}

InitFence ==
    /\ Init!1 /\ Init!2 /\ Init!3 /\ Init!4 /\ Init!5 /\ Init!6 /\ Init!7
    /\ Init!8 /\ Init!9 /\ Init!10 /\ Init!11 /\ Init!12 /\ Init!13 /\ Init!14
    /\ Init!15 /\ Init!16
    /\ response_text \in RawResponses
    /\ clean_text = [done |-> FALSE, text |-> ""]
    /\ env = AnyEnv

\* lines 85-90: the call succeeds with response.text = response_text
StripFences ==
    /\ ~clean_text.done
    /\ clean_text' = [done |-> TRUE,
                      text |-> extract_clauses([ok |-> TRUE, text |-> response_text])]
    /\ UNCHANGED <<pc, filename, upload, fs, inode, fd, doc_text, summary,
                   clauses_json_string, result, response, llm, decided, log,
                   readFrom, touched, response_text, env>>

NextFence == StripFences
SpecFence == InitFence /\ [][NextFence]_vars

(***************************************************************************)
(* Properties                                                              *)
(***************************************************************************)
InLog(r, name) == \E j \in 1 .. Len(log[r]) : log[r][j] = name
Count(r, name) == Cardinality({j \in 1 .. Len(log[r]) : log[r][j] = name})
Done(r) == pc[r] = "done"
LeftTry(r) == pc[r] \in {"exists", "remove", "respond", "done"}
Is(res, status, detail) ==
    res.kind = "http" /\ res.status = status /\ res.detail = detail

\* the object json.dumps is given at main.py:95-99
NoticeClauses ==
    [liability |-> JArr(<<JStr(CLAUSE_ERROR)>>),
     termination |-> JArr(<<>>),
     confidentiality |-> JArr(<<>>)]

\* C1: once a request has terminated, on whichever exit path, no file exists
\* at the temporary path temp_<filename> it used.
C1_CleanupPostcondition ==
    \A r \in Requests : Done(r) => fs[file_path(filename[r])] = 0

\* a request that saved its upload, failed later and terminated
C1_Witness ==
    \E r \in Requests :
        Done(r) /\ InLog(r, "copy") /\ InLog(r, "remove") /\ response[r].status # 200

\* C2: when read_pdf_file returns "", the request ends with the 400 and its
\* detail, not a 500, and neither get_summary nor extract_clauses is called.
C2_UnreadableIs400 ==
    \A r \in Requests :
        (InLog(r, "read") /\ doc_text[r] = "") =>
            /\ llm[r] = NoCalls
            /\ ~InLog(r, "summary") /\ ~InLog(r, "clauses")
            /\ LeftTry(r) /\ Is(decided[r], 400, DETAIL_UNREADABLE)
            /\ Done(r) => Is(response[r], 400, DETAIL_UNREADABLE)

C2_Witness ==
    \E r \in Requests :
        Done(r) /\ InLog(r, "read") /\ doc_text[r] = "" /\ response[r].status = 400

\* C3: every 200 response carries a clauses object with exactly the keys
\* liability, termination and confidentiality, each a list of strings.
C3_ExactlyThreeKeys ==
    \A r \in Requests :
        (Done(r) /\ response[r].status = 200) =>
            /\ response[r].clauses.t = "obj"
            /\ KeySet(response[r].clauses.keys) = ClauseKeys
            /\ \A k \in ClauseKeys : is_list_of_str(response[r].clauses.m[k])

\* C4: when the fence-stripped clause text does not parse as JSON the request
\* ends with the 500 and its detail, nothing of the analysis is returned, and
\* that 500 is only ever reached after both external calls.
C4_MalformedIs500 ==
    \A r \in Requests :
        /\ (InLog(r, "parse") /\ ~json_loads(clauses_json_string[r]).ok) =>
              /\ Is(decided[r], 500, DETAIL_MALFORMED)
              /\ Done(r) => /\ Is(response[r], 500, DETAIL_MALFORMED)
                            /\ response[r].summary = ""
                            /\ response[r].clauses = JNull
        /\ (decided[r].detail = DETAIL_MALFORMED \/ response[r].detail = DETAIL_MALFORMED) =>
              /\ llm[r].summary # "none" /\ llm[r].clauses # "none"
              /\ InLog(r, "summary") /\ InLog(r, "clauses")

C4_Witness ==
    \E r \in Requests :
        /\ Done(r) /\ clauses_json_string[r] = R_NOT_JSON
        /\ response[r].status = 500 /\ response[r].detail = DETAIL_MALFORMED

\* C5 as stated: on a request with document text, whenever the external call
\* failed in get_summary, in extract_clauses or in both, the request ends with
\* 200; summary is the failure notice exactly when the summarizer failed, and
\* clauses is the fixed three-key object when the clause call failed.
C5_AlwaysRecovers ==
    \A r \in Requests :
        (Done(r) /\ InLog(r, "summary")
           /\ (llm[r].summary = "failed" \/ llm[r].clauses = "failed")) =>
            /\ response[r].kind = "return" /\ response[r].status = 200
            /\ response[r].summary = SUMMARY_ERROR <=> llm[r].summary = "failed"
            /\ llm[r].clauses = "failed" => response[r].clauses.m = NoticeClauses

Accepted(text) ==
    /\ json_loads(text).ok
    /\ fits_ResultStructure(Returned("", json_loads(text).val))

\* C5 amended: a failed external call is replaced by the fixed notice and never
\* raises; the request ends with 200 when the clause call failed (alone or
\* with the summarizer); when only the summarizer failed it ends with 200
\* provided the clause text parses as a JSON object of lists of strings, and
\* with the 500 of malformed output when the clause text does not parse.
C5_LocalRecovery ==
    \A r \in Requests :
        /\ llm[r].summary = "failed" => summary[r] = SUMMARY_ERROR
        /\ llm[r].clauses = "failed" =>
              /\ json_loads(clauses_json_string[r]).ok
              /\ json_loads(clauses_json_string[r]).val.m = NoticeClauses
        /\ pc[r] \in {"clauses", "parse"} => result[r] = Pending
        /\ (Done(r) /\ (llm[r].clauses = "failed"
                         \/ (llm[r].summary = "failed"
                             /\ Accepted(clauses_json_string[r])))) =>
              /\ response[r].kind = "return" /\ response[r].status = 200
              /\ response[r].summary = SUMMARY_ERROR <=> llm[r].summary = "failed"
              /\ response[r].clauses = json_loads(clauses_json_string[r]).val
              /\ llm[r].clauses = "failed" =>
                    /\ response[r].clauses.m = NoticeClauses
                    /\ KeySet(response[r].clauses.keys) = ClauseKeys
        /\ (Done(r) /\ llm[r].summary = "failed"
              /\ ~json_loads(clauses_json_string[r]).ok) =>
              Is(response[r], 500, DETAIL_MALFORMED)

\* both external calls failed and the request still succeeded
C5_Witness ==
    \E r \in Requests :
        /\ Done(r) /\ llm[r] = [summary |-> "failed", clauses |-> "failed"]
        /\ response[r].status = 200 /\ response[r].summary = SUMMARY_ERROR

Canon == <<"open", "copy", "read", "summary", "clauses", "parse", "exists", "remove">>
Pos(name) == CHOOSE j \in 1 .. Len(Canon) : Canon[j] = name

\* C6: within one request the upload is saved before read_pdf_file, which
\* completes before any external call; get_summary precedes extract_clauses,
\* parsing follows both; each is called at most once, so a request that has
\* left the try block has made zero or exactly two external calls.
C6_Ordering ==
    \A r \in Requests :
        /\ \A i, j \in 1 .. Len(log[r]) : i < j => Pos(log[r][i]) < Pos(log[r][j])
        /\ InLog(r, "read") => InLog(r, "copy")
        /\ InLog(r, "summary") => InLog(r, "read") /\ doc_text[r] # ""
        /\ InLog(r, "clauses") => InLog(r, "summary")
        /\ InLog(r, "parse") => InLog(r, "clauses")
        /\ llm[r].summary # "none" <=> InLog(r, "summary")
        /\ llm[r].clauses # "none" <=> InLog(r, "clauses")
        /\ LeftTry(r) => (InLog(r, "summary") <=> InLog(r, "clauses"))

C6_Witness ==
    \E r \in Requests : Done(r) /\ log[r] = Canon

\* C7: every request ends with a 200 AnalysisResult or with an HTTPException
\* 400 or 500 carrying one of the three fixed details; nothing else leaves
\* the request.
C7_ClosedOutcomes ==
    \A r \in Requests :
        Done(r) =>
            \/ response[r].kind = "return" /\ response[r].status = 200
            \/ Is(response[r], 400, DETAIL_UNREADABLE)
            \/ Is(response[r], 500, DETAIL_MALFORMED)
            \/ Is(response[r], 500, DETAIL_INTERNAL)

Arrived(r) == pc[r] # "idle"

\* C8: two requests use the same temporary path exactly when their filenames
\* are equal, and a request only ever overwrites, reads or deletes the file
\* of another request whose filename is the same.
C8_SharedOnlyBySameName ==
    \A r \in Requests :
        /\ \A q \in touched[r] : filename[q] = filename[r]
        /\ \A q \in Requests :
              (Arrived(r) /\ Arrived(q)) =>
                  (filename[r] = filename[q]
                     <=> file_path(filename[r]) = file_path(filename[q]))

\* one request has extracted the text of the other's bytes, and the other
\* found its saved file deleted before reading it
C8_Witness ==
    \E r, q \in Requests :
        /\ r # q /\ filename[r] = filename[q]
        /\ readFrom[r] = q /\ doc_text[r] # ""
        /\ InLog(q, "copy") /\ InLog(q, "read") /\ readFrom[q] = 0
        /\ InLog(r, "remove")

\* C9: the cleanup runs exactly once on every exit from the try block, never
\* raises, and leaves the outcome decided by the try block as it is.
C9_CleanupTolerant ==
    \A r \in Requests :
        pc[r] \in {"respond", "done"} =>
            /\ Count(r, "exists") = 1
            /\ result[r] = decided[r]

RECURSIVE is_subsequence(_, _, _, _)
\* a[i..] can be obtained from b[j..] by deleting characters
is_subsequence(a, i, b, j) ==
    IF i > Len(a) THEN TRUE
    ELSE LET hits == {k \in j .. Len(b) : ch(b, k) = ch(a, i)}
         IN  IF hits = {} THEN FALSE
             ELSE is_subsequence(a, i + 1, b, Min(hits) + 1)

Occurrences(s, sub) ==
    Cardinality({j \in 1 .. Len(s) : starts_with(s, j, sub)})
Letters(s) == Cardinality({j \in 1 .. Len(s) : ch(s, j) # "'"})

\* C10: the string extract_clauses returns holds no three-backtick marker;
\* it is the trimmed raw text with characters deleted and none reordered,
\* the deleted characters being backticks and the json tag of each tagged
\* marker; a text without markers is returned unchanged apart from trimming.
C10_FenceStripping ==
    clean_text.done =>
        LET raw == str_strip(response_text)
            out == clean_text.text
        IN  /\ Occurrences(out, "'''") = 0
            /\ is_subsequence(out, 1, raw, 1)
            /\ Letters(out) = Letters(raw) - 4 * Occurrences(raw, "'''json")
            /\ Occurrences(raw, "'''") = 0 => out = raw

\* removing the tagged marker brings three backticks together
C10_Witness ==
    /\ clean_text.done
    /\ response_text = "''''json''"
    /\ clean_text.text = ""

====
